---- MODULE Spec2Model ----
(***************************************************************************)
(* A model of draupnir: the image store (store.DBImageStore), the instance *)
(* lifecycle around the privileged scripts, and the OAuth access-token     *)
(* routes (routes.AccessTokens).  Spec and SpecRace are the image store,   *)
(* SpecInstances the instance requests, SpecAuth the access-token          *)
(* requests; each leaves the variables of the others alone.                *)
(*                                                                         *)
(* Every SQL statement of the store is one atomic step of the database.    *)
(* Callers of MarkAsReady are separate requests: a call is invoked         *)
(* (MarkAsReadyCall) and later executed by the database (MarkAsReadyExec), *)
(* so two calls can be in flight at once.  The database itself is taken to *)
(* be reliable: a statement fails only for the reasons its SQL gives.      *)
(***************************************************************************)
EXTENDS Integers, Sequences, FiniteSets, TLC

VARIABLES
    images,     \* table images: id -> row
    nextId,     \* the serial sequence behind images.id
    call,       \* per caller: its MarkAsReady call (idle, pending, returned)
    last,       \* what the most recent store operation was given and returned
    flipped,    \* history: how often each row's ready went false -> true
    wins        \* history: how many MarkAsReady calls presenting ready=false
                \* succeeded on each id

storeVars == <<images, nextId, call, last, flipped, wins>>

VARIABLES
    instances,        \* table instances: id -> row
    nextInstanceId,   \* the serial sequence behind instances.id
    resource,         \* per instance id: the state of its database on disk
    req,              \* the instance request being handled, and where it is
    resp              \* the response to the instance request, once handled

instVars == <<instances, nextInstanceId, resource, req, resp>>

VARIABLES
    Callbacks,        \* AccessTokens.Callbacks: state -> channel
    crt,              \* per Create request: where it is and what it holds
    cbk,              \* per Callback request: where it is and what it holds
    crashed,          \* the Go runtime has aborted the server
    authenticated,    \* the states Authenticate has redirected to the provider
    cancelled         \* the Create requests whose client has gone away

authVars == <<Callbacks, crt, cbk, crashed, authenticated, cancelled>>

VARIABLES
    chainReq,         \* the request inside the middleware chain, and where it is
    chainLog          \* the requests the chain has finished with, in order

chainVars == <<chainReq, chainLog>>

VARIABLES
    clientCall        \* the most recent call of the API client: the operation,
                      \* what the HTTP round trip gave it, what it returned

vars == <<storeVars, instVars, authVars, chainVars, clientCall>>

\* what the operations of the image store leave alone
notStore == <<instVars, authVars, chainVars, clientCall>>

\* what the instance requests leave alone
notInst == <<storeVars, authVars, chainVars, clientCall>>

\* what the access-token requests leave alone
notAuth == <<storeVars, instVars, chainVars, clientCall>>

\* what the middleware chain leaves alone
notChain == <<storeVars, instVars, authVars, clientCall>>

\* what the calls of the API client leave alone
notClient == <<storeVars, instVars, authVars, chainVars>>

(***************************************************************************)
(* Bounds and input sets                                                   *)
(***************************************************************************)
MaxImages == 2

MaxInstances == 2

MaxRequests == 2

\* the most images one listing carries
MaxListed == 3

\* the instants an image's UpdatedAt is drawn from: 1..MaxUpdatedAt
MaxUpdatedAt == 2

IDs == 1..MaxImages

Callers == {"c1", "c2"}

Times == {"2016-01-01T12:33:44Z", "2016-01-02T03:04:05Z"}

Anons == {"CREATE DATABASE foo;", "CREATE TABLE foo (id serial);"}

(***************************************************************************)
(* models.Image and the rows of table images                               *)
(***************************************************************************)
ZeroTime == "0001-01-01T00:00:00Z"

ZeroImage ==
    [ID |-> 0, BackedUpAt |-> ZeroTime, Ready |-> FALSE, Anon |-> "",
     CreatedAt |-> ZeroTime, UpdatedAt |-> ZeroTime]

ErrNoRows == "sql: no rows in result set"

NoError == "nil"

\* The columns a RETURNING / SELECT without anon scans into image: every
\* field but Anon is overwritten, Anon keeps what image carried.
\* Mutant of ScanRow: the anon column is selected and scanned as well.
ScanRowLeaksAnon(image, id, row) ==
    [image EXCEPT !.ID = id,
                  !.BackedUpAt = row.backed_up_at,
                  !.Ready = row.ready,
                  !.Anon = row.anon,
                  !.CreatedAt = row.created_at,
                  !.UpdatedAt = row.updated_at]

ScanRow(image, id, row) ==
    [image EXCEPT !.ID = id,
                  !.BackedUpAt = row.backed_up_at,
                  !.Ready = row.ready,
                  !.CreatedAt = row.created_at,
                  !.UpdatedAt = row.updated_at]

\* SELECT id, backed_up_at, ready, anon, created_at, updated_at
ScanRowWithAnon(image, id, row) ==
    [ScanRow(image, id, row) EXCEPT !.Anon = row.anon]

(***************************************************************************)
(* DBImageStore.Create                                                     *)
(***************************************************************************)
\* Mutant of InsertedRow: the ready column is not taken from $2.
InsertedRowReadyTrue(image) ==
    [backed_up_at |-> image.BackedUpAt,
     ready |-> TRUE,
     anon |-> image.Anon,
     created_at |-> image.CreatedAt,
     updated_at |-> image.UpdatedAt]

\* INSERT INTO images (backed_up_at, ready, anon, created_at, updated_at)
\* VALUES ($1..$5): the row takes every column from the image it is given.
InsertedRow(image) ==
    [backed_up_at |-> image.BackedUpAt,
     ready |-> image.Ready,
     anon |-> image.Anon,
     created_at |-> image.CreatedAt,
     updated_at |-> image.UpdatedAt]

CreateTable(tbl, id, image) ==
    [i \in DOMAIN tbl \cup {id} |->
        IF i = id THEN InsertedRow(image) ELSE tbl[i]]

CreateReturn(tbl, id, image) ==
    [err |-> NoError, image |-> ScanRow(image, id, InsertedRow(image))]

(***************************************************************************)
(* DBImageStore.MarkAsReady                                                *)
(***************************************************************************)
\* Mutant of MarkAsReadyMatches: the WHERE clause without "AND ready = $2".
MarkAsReadyMatchesIdOnly(tbl, image) ==
    image.ID \in DOMAIN tbl

\* WHERE id = $1 AND ready = $2
MarkAsReadyMatches(tbl, image) ==
    /\ image.ID \in DOMAIN tbl
    /\ tbl[image.ID].ready = image.Ready

\* Mutant of MarkAsReadyTable: the UPDATE sets updated_at and leaves ready.
MarkAsReadyTableKeepsReady(tbl, image, now) ==
    IF MarkAsReadyMatches(tbl, image)
    THEN [tbl EXCEPT ![image.ID].updated_at = now]
    ELSE tbl

\* Mutant of MarkAsReadyTable: the WHERE clause without "id = $1".
MarkAsReadyTableAllRows(tbl, image, now) ==
    [i \in DOMAIN tbl |->
        IF tbl[i].ready = image.Ready
        THEN [tbl[i] EXCEPT !.ready = TRUE, !.updated_at = now]
        ELSE tbl[i]]

\* UPDATE images SET ready = TRUE, updated_at = now()
MarkAsReadyTable(tbl, image, now) ==
    IF MarkAsReadyMatches(tbl, image)
    THEN [tbl EXCEPT ![image.ID].ready = TRUE, ![image.ID].updated_at = now]
    ELSE tbl

\* RETURNING ... scanned into image; no row: Scan fails, image is as given.
MarkAsReadyReturn(tbl, image, now) ==
    IF MarkAsReadyMatches(tbl, image)
    THEN [err |-> NoError,
          image |-> ScanRow(image, image.ID,
                            MarkAsReadyTable(tbl, image, now)[image.ID])]
    ELSE [err |-> ErrNoRows, image |-> image]

(***************************************************************************)
(* DBImageStore.Get, List, Destroy                                         *)
(***************************************************************************)
\* Mutant of GetReturn: a missing row is returned as an empty image, no error.
GetReturnEmpty(tbl, id) ==
    IF id \in DOMAIN tbl
    THEN [err |-> NoError, image |-> ScanRowWithAnon(ZeroImage, id, tbl[id])]
    ELSE [err |-> NoError, image |-> ZeroImage]

GetReturn(tbl, id) ==
    IF id \in DOMAIN tbl
    THEN [err |-> NoError, image |-> ScanRowWithAnon(ZeroImage, id, tbl[id])]
    ELSE [err |-> ErrNoRows, image |-> ZeroImage]

\* ids of tbl in ascending order (ORDER BY id ASC)
RECURSIVE SortedIds(_)
SortedIds(S) ==
    IF S = {} THEN <<>>
    ELSE LET m == CHOOSE x \in S : \A y \in S : x <= y
         IN <<m>> \o SortedIds(S \ {m})

ListReturn(tbl) ==
    LET ids == SortedIds(DOMAIN tbl)
    IN [err |-> NoError,
        images |-> [k \in 1..Len(ids) |-> ScanRow(ZeroImage, ids[k], tbl[ids[k]])]]

\* DELETE FROM images WHERE id = $1
\* Mutant of DestroyTable: the DELETE has no WHERE clause.
DestroyTableAll(tbl, image) == <<>>

DestroyTable(tbl, image) ==
    [i \in DOMAIN tbl \ {image.ID} |-> tbl[i]]

(***************************************************************************)
(* History of the ready column                                             *)
(***************************************************************************)
Bump(h) == IF h = "never" THEN "once" ELSE "again"

Flips(old, new, h) ==
    [i \in IDs |->
        IF i \in DOMAIN old /\ i \in DOMAIN new /\ ~old[i].ready /\ new[i].ready
        THEN Bump(h[i]) ELSE h[i]]

(***************************************************************************)
(* The store's operations                                                  *)
(***************************************************************************)
Idle == [st |-> "idle"]

NoOp == [op |-> "none"]

\* the images a caller hands to Create: any ready flag, any script
NewImages ==
    [ID : {0}, BackedUpAt : {"2016-01-02T03:04:05Z"}, Ready : BOOLEAN,
     Anon : Anons, CreatedAt : {"2016-01-01T12:33:44Z"},
     UpdatedAt : {"2016-01-01T12:33:44Z"}]

\* the images a caller presents to MarkAsReady and Destroy: an id and the
\* value of ready it has observed
Presented == {[ZeroImage EXCEPT !.ID = id, !.Ready = r] : id \in IDs, r \in BOOLEAN}

StoreInit ==
    /\ images = <<>>
    /\ nextId = 1
    /\ call = [c \in Callers |-> Idle]
    /\ last = NoOp
    /\ flipped = [i \in IDs |-> "never"]
    /\ wins = [i \in IDs |-> "never"]

Create(image) ==
    /\ nextId <= MaxImages
    /\ images' = CreateTable(images, nextId, image)
    /\ nextId' = nextId + 1
    /\ last' = [op |-> "Create", arg |-> image,
                ret |-> CreateReturn(images, nextId, image)]
    /\ flipped' = Flips(images, images', flipped)
    /\ UNCHANGED <<call, wins, notStore>>

Get(id) ==
    /\ last' = [op |-> "Get", arg |-> id, ret |-> GetReturn(images, id)]
    /\ UNCHANGED <<images, nextId, call, flipped, wins, notStore>>

List ==
    /\ last' = [op |-> "List", ret |-> ListReturn(images)]
    /\ UNCHANGED <<images, nextId, call, flipped, wins, notStore>>

Destroy(image) ==
    /\ images' = DestroyTable(images, image)
    /\ last' = [op |-> "Destroy", arg |-> image, ret |-> [err |-> NoError]]
    /\ flipped' = Flips(images, images', flipped)
    /\ UNCHANGED <<nextId, call, wins, notStore>>

\* The outcome of the UPDATE for the image presented, as every caller of
\* MarkAsReady sees it.
MarkAsReadyEffect(image, now) ==
    LET ret == MarkAsReadyReturn(images, image, now)
    IN /\ images' = MarkAsReadyTable(images, image, now)
       /\ last' = [op |-> "MarkAsReady", arg |-> image, ret |-> ret]
       /\ wins' = IF ret.err = NoError /\ ~image.Ready
                  THEN [wins EXCEPT ![image.ID] = Bump(@)] ELSE wins
       /\ flipped' = Flips(images, images', flipped)
       /\ UNCHANGED <<nextId, notStore>>

\* one request calls MarkAsReady(image) with no other call in flight
MarkAsReady(image, now) ==
    /\ \A c \in Callers : call[c] = Idle
    /\ MarkAsReadyEffect(image, now)
    /\ UNCHANGED call

\* a request invokes MarkAsReady(image)
MarkAsReadyCall(c, image) ==
    /\ call[c] = Idle
    /\ call' = [call EXCEPT ![c] = [st |-> "pending", image |-> image]]
    /\ UNCHANGED <<images, nextId, last, flipped, wins, notStore>>

\* the database executes the UPDATE of c's call and the call returns
MarkAsReadyExec(c, now) ==
    /\ call[c] # Idle
    /\ MarkAsReadyEffect(call[c].image, now)
    /\ call' = [call EXCEPT ![c] = Idle]

\* The store used by one request at a time.
StoreNext ==
    \/ \E image \in NewImages : Create(image)
    \/ \E id \in IDs : Get(id)
    \/ List
    \/ \E image \in Presented : Destroy(image)
    \/ \E image \in Presented, now \in Times : MarkAsReady(image, now)

\* Requests racing on MarkAsReady while images are created and destroyed.
RaceNext ==
    \/ \E image \in NewImages : Create(image)
    \/ \E image \in Presented : Destroy(image)
    \/ \E c \in Callers, image \in Presented : MarkAsReadyCall(c, image)
    \/ \E c \in Callers, now \in Times : MarkAsReadyExec(c, now)

(***************************************************************************)
(* Instances: the create and destroy requests of the instance routes and   *)
(* the two privileged scripts they run through the Executor.  One request  *)
(* is handled at a time; each command of a script is one step, and whether *)
(* it succeeds is the environment's choice.                                *)
(***************************************************************************)
InstanceIDs == 1..MaxInstances

\* ports an instance can be given: the fixtures' 5432, the script's 6543
Ports == {5432, 6543}

NoReq == [op |-> "none"]

NoResp == [op |-> "none"]

\* the commands of draupnir-create-instance, in order
\* Mutant of ProvisionSteps: the restart that opens the instance to the
\* network comes before the checks.
ProvisionStepsExposeFirst ==
    <<"snapshot", "configure", "start", "enable", "restart", "check_no_tls",
      "check_no_cert", "check_client", "check_superuser", "check_other_user">>

ProvisionSteps ==
    <<"snapshot", "configure", "start", "check_no_tls", "check_no_cert",
      "check_client", "check_superuser", "check_other_user", "enable",
      "restart">>

\* the checks that end in die_and_stop when they do not hold
AccessChecks ==
    {"check_no_tls", "check_no_cert", "check_client", "check_superuser",
     "check_other_user"}

StepAfter(step) ==
    LET k == CHOOSE i \in 1..Len(ProvisionSteps) : ProvisionSteps[i] = step
    IN IF k = Len(ProvisionSteps) THEN "exit0" ELSE ProvisionSteps[k + 1]

\* the state of the instance's database once `step` has succeeded
ResourceAfter(step, res) ==
    CASE step = "snapshot" -> "snapshot"
      [] step = "start" -> "local"
      [] step = "restart" -> "exposed"
      [] OTHER -> res

\* die_and_stop: pg_ctl stop, then exit 1
DieAndStop(res, stopped) == IF stopped THEN "stopped" ELSE res

\* the state of the instance's database once `step` has failed: a failed
\* check stops it (when pg_ctl stop works); any other failed command ends the
\* script under set -e; a failed restart leaves it running or stopped.
ResourceAfterFailure(step, res, stopped) ==
    IF step \in AccessChecks THEN DieAndStop(res, stopped)
    ELSE IF step = "restart" THEN (IF stopped THEN "stopped" ELSE res)
    ELSE res

\* Mutant of ProvisionOnFailure: the script without set -e and without the
\* exit of die_and_stop goes on to its next command.
ProvisionOnFailureContinues(step) == StepAfter(step)

\* where draupnir-create-instance goes when a command fails: set -e and
\* die_and_stop end it with a non-zero status
ProvisionOnFailure(step) == "exit1"

\* the commands of draupnir-destroy-instance, in order
TeardownAfter(step) == IF step = "stop" THEN "delete" ELSE "exit0"

\* Mutant of TeardownOnFailure: the script without set -e goes on to its
\* next command.
TeardownOnFailureContinues(step) == TeardownAfter(step)

\* where draupnir-destroy-instance goes when a command fails (set -e)
TeardownOnFailure(step) == "exit1"

TeardownResource(step) == IF step = "stop" THEN "stopped" ELSE "deleted"

HttpCreated == [code |-> 201, id |-> "created"]

HttpNoContent == [code |-> 204, id |-> "no_content"]

HttpNotFound == [code |-> 404, id |-> "resource_not_found"]

HttpUnprocessable == [code |-> 422, id |-> "unprocessable_entity"]

HttpInternal == [code |-> 500, id |-> "internal_server_error"]

\* Mutant of ImageCheck: the handler does not look at image.Ready.
ImageCheckIgnoresReady(got) ==
    IF got.err # NoError THEN HttpNotFound ELSE HttpCreated

\* the status a create request ends with once the image has been looked up
ImageCheck(got) ==
    IF got.err # NoError THEN HttpNotFound
    ELSE IF ~got.image.Ready THEN HttpUnprocessable
    ELSE HttpCreated

\* Mutant of AssignPort: the instance keeps the zero port.
AssignPortZero(port) == 0

\* the port given to a new instance
AssignPort(port) == port

\* the row persisted for a provisioned instance
InstanceRow(r) == [image_id |-> r.image_id, port |-> r.port]

\* what a failed provisioning leaves in table instances
RowsAfterFailedProvision(tbl, r) == tbl

\* what a create request leaves in table instances when the script is done
RowsAfterProvision(tbl, r) ==
    IF r.pc = "exit0"
    THEN [i \in DOMAIN tbl \cup {r.id} |->
             IF i = r.id THEN InstanceRow(r) ELSE tbl[i]]
    ELSE RowsAfterFailedProvision(tbl, r)

\* what a destroy request leaves in table instances when the script is done
RowsAfterTeardown(tbl, r) ==
    IF r.pc = "exit0"
    THEN [i \in DOMAIN tbl \ {r.id} |-> tbl[i]]
    ELSE tbl

InstInit ==
    /\ instances = <<>>
    /\ nextInstanceId = 1
    /\ resource = [i \in InstanceIDs |-> "absent"]
    /\ req = NoReq
    /\ resp = NoResp

\* POST /instances {image_id}
PostInstance(imageID) ==
    /\ req = NoReq
    /\ nextInstanceId <= MaxInstances
    /\ req' = [op |-> "create", pc |-> "load", image_id |-> imageID,
               before |-> instances, failed |-> FALSE]
    /\ resp' = NoResp
    /\ UNCHANGED <<instances, nextInstanceId, resource, notInst>>

\* the handler loads the image and checks that it is ready; for a ready
\* image it takes the next instance id and a port and starts the script
CreateInstanceLoad(port) ==
    /\ req.op = "create"
    /\ req.pc = "load"
    /\ LET status == ImageCheck(GetReturn(images, req.image_id))
       IN IF status = HttpCreated
          THEN /\ req' = [req EXCEPT !.pc = ProvisionSteps[1]] @@
                         [id |-> nextInstanceId, port |-> AssignPort(port),
                          held |-> {}]
               /\ nextInstanceId' = nextInstanceId + 1
               /\ UNCHANGED resp
          ELSE /\ req' = NoReq
               /\ resp' = [op |-> "create", image_id |-> req.image_id,
                           status |-> status]
               /\ UNCHANGED nextInstanceId
    /\ UNCHANGED <<instances, resource, notInst>>

\* one command of draupnir-create-instance ROOT IMAGE_ID INSTANCE_ID PORT
ProvisionStep(ok, stopped) ==
    /\ req.op = "create"
    /\ req.pc \in {ProvisionSteps[k] : k \in 1..Len(ProvisionSteps)}
    /\ IF ok
       THEN /\ req' = [req EXCEPT !.pc = StepAfter(req.pc),
                                   !.held = IF req.pc \in AccessChecks
                                            THEN @ \cup {req.pc} ELSE @]
            /\ resource' = [resource EXCEPT
                              ![req.id] = ResourceAfter(req.pc, @)]
       ELSE /\ req' = [req EXCEPT !.pc = ProvisionOnFailure(req.pc),
                                   !.failed = TRUE]
            /\ resource' = [resource EXCEPT
                              ![req.id] = ResourceAfterFailure(req.pc, @, stopped)]
    /\ UNCHANGED <<instances, nextInstanceId, resp, notInst>>

\* the script has ended: the handler persists the row and answers
CreateInstanceFinish ==
    /\ req.op = "create"
    /\ req.pc \in {"exit0", "exit1"}
    /\ instances' = RowsAfterProvision(instances, req)
    /\ resp' = IF req.pc = "exit0"
               THEN [op |-> "create", image_id |-> req.image_id,
                     status |-> HttpCreated,
                     instance |-> [ID |-> req.id, ImageID |-> req.image_id,
                                   Port |-> InstanceRow(req).port]]
               ELSE [op |-> "create", image_id |-> req.image_id,
                     status |-> HttpInternal]
    /\ req' = NoReq
    /\ UNCHANGED <<nextInstanceId, resource, notInst>>

\* DELETE /instances/:id
DeleteInstance(id) ==
    /\ req = NoReq
    /\ req' = [op |-> "destroy", pc |-> "load", id |-> id, before |-> instances]
    /\ resp' = NoResp
    /\ UNCHANGED <<instances, nextInstanceId, resource, notInst>>

\* the handler loads the instance and starts the script
DestroyInstanceLoad ==
    /\ req.op = "destroy"
    /\ req.pc = "load"
    /\ IF req.id \in DOMAIN instances
       THEN /\ req' = [req EXCEPT !.pc = "stop"]
            /\ UNCHANGED resp
       ELSE /\ req' = NoReq
            /\ resp' = [op |-> "destroy", id |-> req.id, status |-> HttpNotFound]
    /\ UNCHANGED <<instances, nextInstanceId, resource, notInst>>

\* one command of draupnir-destroy-instance ROOT INSTANCE_ID (under set -e)
TeardownStep(ok) ==
    /\ req.op = "destroy"
    /\ req.pc \in {"stop", "delete"}
    /\ IF ok
       THEN /\ req' = [req EXCEPT !.pc = TeardownAfter(req.pc)]
            /\ resource' = [resource EXCEPT ![req.id] = TeardownResource(req.pc)]
       ELSE /\ req' = [req EXCEPT !.pc = TeardownOnFailure(req.pc)]
            /\ UNCHANGED resource
    /\ UNCHANGED <<instances, nextInstanceId, resp, notInst>>

\* the script has ended: the handler deletes the row and answers
DestroyInstanceFinish ==
    /\ req.op = "destroy"
    /\ req.pc \in {"exit0", "exit1"}
    /\ instances' = RowsAfterTeardown(instances, req)
    /\ resp' = [op |-> "destroy", id |-> req.id,
                status |-> IF req.pc = "exit0" THEN HttpNoContent
                           ELSE HttpInternal]
    /\ req' = NoReq
    /\ UNCHANGED <<nextInstanceId, resource, notInst>>

\* POST /images/:id/done has finalised the uploaded image id
ImageDone(id) ==
    /\ ~images[id].ready
    /\ MarkAsReady([ZeroImage EXCEPT !.ID = id], "2016-01-02T03:04:05Z")

\* the images of the instance scenarios: all uploaded, none finalised yet
UploadedImages ==
    [i \in IDs |->
        InsertedRow([ZeroImage EXCEPT !.BackedUpAt = "2016-01-02T03:04:05Z",
                                      !.Anon = "CREATE TABLE foo (id serial);",
                                      !.CreatedAt = "2016-01-01T12:33:44Z",
                                      !.UpdatedAt = "2016-01-01T12:33:44Z"])]

(***************************************************************************)
(* Access tokens: routes.AccessTokens.  Every request runs in a goroutine  *)
(* of its own.  The Callbacks map is read and written without a lock: an   *)
(* access to it is a step that begins and a step that ends, and while two  *)
(* accesses overlap, one of them a write, the Go runtime may abort the     *)
(* server (fatal error: concurrent map writes / read and map write); when  *)
(* it does not, each access takes effect when it ends.  The channel a      *)
(* Create request makes is named after the request.  The logger is taken   *)
(* to be attached to every request.                                        *)
(***************************************************************************)
Creators == {"k1", "k2"}

Callbackers == {"b1", "b2"}

States == {"s1", "s2"}

\* what the provider's token endpoint can answer an Exchange with
Tokens == {"tokenA", "tokenB"}

ExchangeFailures == {"oauth2: cannot fetch token"}

\* the query of a callback request: error and code as the provider sent them
Forms ==
    {[error |-> "access_denied", code |-> "code1"],
     [error |-> "", code |-> ""],
     [error |-> "", code |-> "code1"]}

BadBody == "not a jsonapi payload"

Nil == "nil"

ZeroToken == "oauth2.Token{}"

ErrTimeout == "Callback timed out"

ErrEmptyCode == "OAuth callback response code is empty"

\* errors.Wrap(err, "token exchange error")
WrapExchangeError(err) ==
    CASE err = "oauth2: cannot fetch token" ->
           "token exchange error: oauth2: cannot fetch token"
      [] OTHER -> "token exchange error"

\* OAuthCallback{Token: ..., Error: ...}
OAuthCallback(token, err) == [Token |-> token, Error |-> err]

\* Mutant of WaitForCallbackReceive: the token of the message is dropped.
WaitForCallbackReceiveZero(c) == [Token |-> ZeroToken, Error |-> c.Error]

\* waitForCallback, case c := <-callbackChan
WaitForCallbackReceive(c) ==
    IF c.Error # Nil
    THEN [Token |-> ZeroToken, Error |-> c.Error]
    ELSE [Token |-> c.Token, Error |-> Nil]

\* waitForCallback, case <-time.After(OAUTH_CALLBACK_TIMEOUT)
WaitForCallbackTimeout == [Token |-> ZeroToken, Error |-> ErrTimeout]

\* what Create answers once waitForCallback has returned got
CreateResponse(got) ==
    IF got.Error # Nil
    THEN [code |-> 400, body |-> "oauthError", logged |-> got.Error]
    ELSE [code |-> 201, body |-> got.Token, logged |-> Nil]

\* Mutant of InvalidJSONResponse: the undecodable body is not refused.
InvalidJSONResponseCreated == [code |-> 201, body |-> ZeroToken, logged |-> Nil]

InvalidJSONResponse == [code |-> 400, body |-> "invalidJSONError", logged |-> Nil]

\* the message a callback request sends when the provider needs no exchange
CallbackMessage(form) ==
    IF form.error # "" THEN OAuthCallback(ZeroToken, form.error)
    ELSE OAuthCallback(ZeroToken, ErrEmptyCode)

\* the message a callback request sends once Exchange has answered
ExchangeMessage(answer) ==
    IF answer \in Tokens THEN OAuthCallback(answer, Nil)
    ELSE OAuthCallback(ZeroToken, WrapExchangeError(answer))

\* Mutant of CallbackNoSlot: the missing slot fails the callback request.
CallbackNoSlotFails(state) ==
    [pc |-> "done", state |-> state, delivered |-> FALSE,
     sent |-> OAuthCallback(ZeroToken, Nil),
     ret |-> "cannot find oauth callback for state"]

\* Callback when a.Callbacks[state] is nil: logged, return nil
CallbackNoSlot(state) ==
    [pc |-> "done", state |-> state, delivered |-> FALSE,
     sent |-> OAuthCallback(ZeroToken, Nil), ret |-> Nil]

\* Mutant of MayAccess: a lock on the map is held across waitForCallback.
MayAccessUnlessWaiting(p) == \A k \in Creators \ {p} : crt[k].pc # "wait"

\* AccessTokens has no lock: an access to the map waits for no other request
MayAccess(p) == TRUE

\* the requests inside an access to the Callbacks map
Writing == {k \in Creators : crt[k].pc \in {"registering", "deleting"}}

Reading == {b \in Callbackers : cbk[b].pc = "looking"}

\* two accesses overlap and one of them writes
MapRace ==
    \/ Cardinality(Writing) >= 2
    \/ Writing # {} /\ Reading # {}

\* Mutant of MapWithout: the entry is left in the map.
MapWithoutKeeps(m, state) == m

MapWithout(m, state) == [t \in DOMAIN m \ {state} |-> m[t]]

\* Mutant of MapWith: an entry that is there already is kept.
MapWithKeepsFirst(m, state, ch) ==
    IF state \in DOMAIN m THEN m
    ELSE [t \in DOMAIN m \cup {state} |-> IF t = state THEN ch ELSE m[t]]

\* Mutant of MapWith: the channel is not stored.
MapWithDropped(m, state, ch) == m

MapWith(m, state, ch) == [t \in DOMAIN m \cup {state} |-> IF t = state THEN ch ELSE m[t]]

AuthInit ==
    /\ Callbacks = <<>>
    /\ crt = [k \in Creators |-> [pc |-> "idle"]]
    /\ cbk = [b \in Callbackers |-> [pc |-> "idle"]]
    /\ crashed = FALSE
    /\ authenticated = {}
    /\ cancelled = {}

\* GET authenticate?state=..: 302 to a.Client.AuthCodeURL(state, ...); the
\* Callbacks map is not touched
Authenticate(state) ==
    /\ ~crashed
    /\ state \notin authenticated
    /\ authenticated' = authenticated \cup {state}
    /\ UNCHANGED <<Callbacks, crt, cbk, crashed, cancelled, notAuth>>

\* the client of a Create request blocked in waitForCallback goes away and
\* r.Context() is cancelled; neither Create nor waitForCallback reads it
CreateCancelled(k) ==
    /\ ~crashed
    /\ crt[k].pc = "wait"
    /\ k \notin cancelled
    /\ cancelled' = cancelled \cup {k}
    /\ UNCHANGED <<Callbacks, crt, cbk, crashed, authenticated, notAuth>>

\* POST /access_tokens: the body is decoded; callback := make(chan ...);
\* the write a.Callbacks[state] = callback begins
CreateBegin(k, body) ==
    /\ ~crashed
    /\ crt[k].pc = "idle"
    /\ crt' = [crt EXCEPT ![k] =
                 IF body = BadBody
                 THEN [pc |-> "done", response |-> InvalidJSONResponse]
                 ELSE [pc |-> "registering", state |-> body]]
    /\ UNCHANGED <<Callbacks, cbk, crashed, authenticated, cancelled, notAuth>>

\* a.Callbacks[state] = callback has been written; waitForCallback selects
CreateRegistered(k) ==
    /\ ~crashed
    /\ crt[k].pc = "registering"
    /\ MayAccess(k)
    /\ Callbacks' = MapWith(Callbacks, crt[k].state, k)
    /\ crt' = [crt EXCEPT ![k].pc = "wait"]
    /\ UNCHANGED <<cbk, crashed, authenticated, cancelled, notAuth>>

\* the timer of waitForCallback fires; delete(a.Callbacks, state) begins
CreateTimeout(k) ==
    /\ ~crashed
    /\ crt[k].pc = "wait"
    /\ crt' = [crt EXCEPT ![k] =
                 [pc |-> "deleting", state |-> crt[k].state,
                  got |-> WaitForCallbackTimeout]]
    /\ UNCHANGED <<Callbacks, cbk, crashed, authenticated, cancelled, notAuth>>

\* delete(a.Callbacks, state) is done; Create answers
CreateFinish(k) ==
    /\ ~crashed
    /\ crt[k].pc = "deleting"
    /\ MayAccess(k)
    /\ Callbacks' = MapWithout(Callbacks, crt[k].state)
    /\ crt' = [crt EXCEPT ![k] =
                 [pc |-> "done", state |-> crt[k].state, got |-> crt[k].got,
                  response |-> CreateResponse(crt[k].got)]]
    /\ UNCHANGED <<cbk, crashed, authenticated, cancelled, notAuth>>

\* GET callback?state=..&code=..&error=..: the read a.Callbacks[state] begins
CallbackBegin(b, state, form) ==
    /\ ~crashed
    /\ cbk[b].pc = "idle"
    /\ cbk' = [cbk EXCEPT ![b] =
                 [pc |-> "looking", state |-> state, form |-> form]]
    /\ UNCHANGED <<Callbacks, crt, crashed, authenticated, cancelled, notAuth>>

\* callback := a.Callbacks[state] has been read
CallbackLookedUp(b) ==
    /\ ~crashed
    /\ cbk[b].pc = "looking"
    /\ MayAccess(b)
    /\ LET state == cbk[b].state
           form == cbk[b].form
       IN cbk' = [cbk EXCEPT ![b] =
                    IF state \notin DOMAIN Callbacks
                    THEN CallbackNoSlot(state)
                    ELSE IF form.error # "" \/ form.code = ""
                    THEN [pc |-> "send", state |-> state,
                          chan |-> Callbacks[state], exchanged |-> Nil,
                          msg |-> CallbackMessage(form)]
                    ELSE [pc |-> "exchange", state |-> state,
                          chan |-> Callbacks[state]]]
    /\ UNCHANGED <<Callbacks, crt, crashed, authenticated, cancelled, notAuth>>

\* token, err := a.Client.Exchange(ctx, respCode) has answered
CallbackExchanged(b, answer) ==
    /\ ~crashed
    /\ cbk[b].pc = "exchange"
    /\ cbk' = [cbk EXCEPT ![b] =
                 [pc |-> "send", state |-> cbk[b].state, chan |-> cbk[b].chan,
                  exchanged |-> answer, msg |-> ExchangeMessage(answer)]]
    /\ UNCHANGED <<Callbacks, crt, crashed, authenticated, cancelled, notAuth>>

\* Mutant of Receiving: the channel is received from again after the select.
ReceivingAgain(k) == crt[k].pc \in {"wait", "deleting"}

\* the one receive of a Create call: the select of waitForCallback
Receiving(k) == crt[k].pc = "wait"

\* callback <- msg meets c := <-callbackChan: the channel is unbuffered, the
\* send and the receive are one step; delete(a.Callbacks, state) begins
Deliver(b, k) ==
    /\ ~crashed
    /\ cbk[b].pc = "send"
    /\ cbk[b].chan = k
    /\ Receiving(k)
    /\ crt' = [crt EXCEPT ![k] =
                 [pc |-> "deleting", state |-> crt[k].state,
                  got |-> WaitForCallbackReceive(cbk[b].msg)]]
    /\ cbk' = [cbk EXCEPT ![b] =
                 [pc |-> "done", state |-> cbk[b].state, delivered |-> TRUE,
                  sent |-> cbk[b].msg, ret |-> cbk[b].msg.Error]]
    /\ UNCHANGED <<Callbacks, crashed, authenticated, cancelled, notAuth>>

\* the runtime detects two overlapping accesses to the map and aborts
MapRaceFatal ==
    /\ ~crashed
    /\ MapRace
    /\ crashed' = TRUE
    /\ UNCHANGED <<Callbacks, crt, cbk, authenticated, cancelled, notAuth>>

AuthNext ==
    \/ \E state \in States : Authenticate(state)
    \/ \E k \in Creators : CreateCancelled(k)
    \/ \E k \in Creators, body \in States \cup {BadBody} : CreateBegin(k, body)
    \/ \E k \in Creators : CreateRegistered(k)
    \/ \E k \in Creators : CreateTimeout(k)
    \/ \E k \in Creators : CreateFinish(k)
    \/ \E b \in Callbackers, state \in States, form \in Forms :
          CallbackBegin(b, state, form)
    \/ \E b \in Callbackers : CallbackLookedUp(b)
    \/ \E b \in Callbackers, answer \in Tokens \cup ExchangeFailures :
          CallbackExchanged(b, answer)
    \/ \E b \in Callbackers, k \in Creators : Deliver(b, k)
    \/ MapRaceFatal

(***************************************************************************)
(* The middleware chain: middleware.Authenticate around the next handler,  *)
(* and GetAuthenticatedUser as the next handler calls it.  The             *)
(* Authenticator is an interface: what it answers for a request is drawn   *)
(* from AuthOutcomes.  A request reaches a handler either through the      *)
(* middleware or on a route mounted without it, with a context that holds  *)
(* nothing, or a value that is not a string, under AuthUserKey.            *)
(***************************************************************************)
AuthUserKey == 2

Emails == {"alice@example.com", "bob@example.com"}

AuthFailures == {"Invalid shared secret", "No authorization header"}

\* authenticator.AuthenticateRequest(r): (email, err)
AuthOutcomes ==
    {[email |-> e, err |-> Nil] : e \in Emails}
        \cup {[email |-> "", err |-> f] : f \in AuthFailures}

StringValue(v) == [type |-> "string", v |-> v]

\* the contexts of a request that never passed through the middleware
BareContexts == {<<>>, [key \in {AuthUserKey} |-> [type |-> "int", v |-> "7"]]}

\* context.WithValue(r.Context(), AuthUserKey, email)
WithValue(ctx, key, value) ==
    [c \in DOMAIN ctx \cup {key} |-> IF c = key THEN value ELSE ctx[c]]

ErrNoUser == "Could not acquire authenticated user"

\* Mutant of GetAuthenticatedUser: a missing identity is reported as success.
GetAuthenticatedUserAnonymous(ctx) ==
    IF AuthUserKey \in DOMAIN ctx /\ ctx[AuthUserKey].type = "string"
    THEN [user |-> ctx[AuthUserKey].v, err |-> Nil]
    ELSE [user |-> "", err |-> Nil]

\* user, ok := r.Context().Value(AuthUserKey).(string)
GetAuthenticatedUser(ctx) ==
    IF AuthUserKey \in DOMAIN ctx /\ ctx[AuthUserKey].type = "string"
    THEN [user |-> ctx[AuthUserKey].v, err |-> Nil]
    ELSE [user |-> "", err |-> ErrNoUser]

ErrNoLogger == "Could not acquire logger"

NoRender == [code |-> 0, id |-> "none"]

HttpUnauthorized == [code |-> 401, id |-> "unauthorized"]

\* Mutant of Yields: the middleware calls the next handler whatever the
\* Authenticator answered.
YieldsAlways(outcome) == TRUE

\* the middleware goes on to next(w, r) when AuthenticateRequest gave no error
Yields(outcome) == outcome.err = Nil

NoChainReq == [pc |-> "none"]

ChainInit ==
    /\ chainReq = NoChainReq
    /\ chainLog = <<>>

\* a request enters a route wrapped in middleware.Authenticate
ChainReceive(logger) ==
    /\ chainReq = NoChainReq
    /\ Len(chainLog) < MaxRequests
    /\ chainReq' = [pc |-> "authenticate", guarded |-> TRUE, logger |-> logger,
                    ctx |-> <<>>, asked |-> FALSE,
                    outcome |-> [email |-> "", err |-> Nil],
                    render |-> NoRender, ret |-> Nil, nextCalls |-> 0,
                    got |-> [user |-> "", err |-> Nil]]
    /\ UNCHANGED <<chainLog, notChain>>

\* a request enters a handler on a route without the middleware
ChainReceiveBare(ctx) ==
    /\ chainReq = NoChainReq
    /\ Len(chainLog) < MaxRequests
    /\ chainReq' = [pc |-> "next", guarded |-> FALSE, logger |-> TRUE,
                    ctx |-> ctx, asked |-> FALSE,
                    outcome |-> [email |-> "", err |-> Nil],
                    render |-> NoRender, ret |-> Nil, nextCalls |-> 1,
                    got |-> [user |-> "", err |-> Nil]]
    /\ UNCHANGED <<chainLog, notChain>>

\* the handler middleware.Authenticate returns, up to its call of next
MiddlewareAuthenticate(outcome) ==
    /\ chainReq.pc = "authenticate"
    /\ chainReq' =
         IF ~chainReq.logger
         THEN [chainReq EXCEPT !.pc = "done", !.ret = ErrNoLogger]
         ELSE IF ~Yields(outcome)
         THEN [chainReq EXCEPT !.pc = "done", !.asked = TRUE,
                               !.outcome = outcome,
                               !.render = HttpUnauthorized, !.ret = Nil]
         ELSE [chainReq EXCEPT !.pc = "next", !.asked = TRUE,
                               !.outcome = outcome,
                               !.ctx = WithValue(chainReq.ctx, AuthUserKey,
                                                 StringValue(outcome.email)),
                               !.nextCalls = chainReq.nextCalls + 1]
    /\ UNCHANGED <<chainLog, notChain>>

\* the next handler runs and asks for the caller's identity
NextHandler ==
    /\ chainReq.pc = "next"
    /\ chainReq' = [chainReq EXCEPT !.pc = "done",
                                    !.got = GetAuthenticatedUser(chainReq.ctx)]
    /\ UNCHANGED <<chainLog, notChain>>

\* the chain has returned
ChainReturn ==
    /\ chainReq.pc = "done"
    /\ chainLog' = Append(chainLog, chainReq)
    /\ chainReq' = NoChainReq
    /\ UNCHANGED notChain

ChainNext ==
    \/ \E logger \in BOOLEAN : ChainReceive(logger)
    \/ \E ctx \in BareContexts : ChainReceiveBare(ctx)
    \/ \E outcome \in AuthOutcomes : MiddlewareAuthenticate(outcome)
    \/ NextHandler
    \/ ChainReturn

(***************************************************************************)
(* The API client (client.go).  A call makes one HTTP round trip; what the *)
(* round trip gives (a transport failure, or a status and a body) is the   *)
(* call's input.                                                           *)
(***************************************************************************)
\* models.Image and models.Instance as the client reads them
ClientZeroImage == [ID |-> 0, Ready |-> FALSE, UpdatedAt |-> 0]

ClientZeroInstance == [ID |-> 0, ImageID |-> 0]

\* A response body, by the document it carries: kind names the document,
\* and the field of that name holds it.
\*   "image", "instance"    a JSON API document of one resource
\*   "images", "instances"  a JSON API document of a list of resources
\*   "token"                an oauth2.Token as plain JSON
\*   "error"                an API error (title, detail) as JSON
\*   "garbage"              bytes that are no JSON
\*   "empty"                no bytes
\*   "closed"               a body that is already closed: reading it fails
NoBody ==
    [kind |-> "empty", image |-> ClientZeroImage, images |-> <<>>,
     instance |-> ClientZeroInstance, instances |-> <<>>,
     token |-> ZeroToken, title |-> "", detail |-> ""]

\* The bodies a server answers with.  Image i of a listing has ID i, any
\* ready flag and any UpdatedAt.
Bodies ==
    {[NoBody EXCEPT !.kind = k] : k \in {"empty", "garbage"}}
    \cup {[NoBody EXCEPT !.kind = "image",
                         !.image = [ID |-> 1, Ready |-> r, UpdatedAt |-> 1]] :
             r \in BOOLEAN}
    \cup UNION {{[NoBody EXCEPT !.kind = "images",
                                !.images = [i \in 1..n |->
                                               [ID |-> i, Ready |-> f[i][1],
                                                UpdatedAt |-> f[i][2]]]] :
                    f \in [1..n -> BOOLEAN \X (1..MaxUpdatedAt)]} :
                 n \in 0..MaxListed}
    \cup {[NoBody EXCEPT !.kind = "instance",
                         !.instance = [ID |-> 1, ImageID |-> 1]]}
    \cup {[NoBody EXCEPT !.kind = "instances", !.instances = l] :
             l \in {<<>>, <<[ID |-> 1, ImageID |-> 1]>>}}
    \cup {[NoBody EXCEPT !.kind = "token", !.token = "tokenA"]}
    \cup {[NoBody EXCEPT !.kind = "error", !.title = "Not Found", !.detail = d] :
             d \in {"", "The resource you requested could not be found"}}

ErrNoImages == "no images available"

NoResponse == [present |-> FALSE, StatusCode |-> 0, Body |-> NoBody]

\* What c.get, c.post and c.delete return.  http.Client.Do returns an error
\* with a nil response, but for a failed redirect check, where the response
\* is there and its body closed; without an error the response is there.
Replies ==
    {[resp |-> NoResponse, err |-> "dial tcp: connection refused"]}
    \cup {[resp |-> [present |-> TRUE, StatusCode |-> 302, Body |-> [NoBody EXCEPT !.kind = "closed"]],
           err |-> "stopped after 10 redirects"]}
    \cup {[resp |-> [present |-> TRUE, StatusCode |-> s, Body |-> b], err |-> Nil] :
             s \in {200, 201, 204, 404, 500}, b \in Bodies}

JSONObject(body) ==
    body.kind \in {"image", "images", "instance", "instances", "token", "error"}

\* the error of json.Decoder.Decode on a body that holds no JSON value
JSONError(body) ==
    CASE body.kind = "closed" -> "http: read on closed response body"
      [] body.kind = "empty" -> "EOF"
      [] OTHER -> "invalid character"

UnmarshalError(body) ==
    IF JSONObject(body) THEN "data is not a jsonapi representation" ELSE JSONError(body)

\* jsonapi.UnmarshalPayload into a model of the given kind: the document of
\* one resource of that kind is decoded, anything else is an error and
\* leaves the model as it was
UnmarshalPayload(body, kind, model) ==
    IF body.kind = kind
    THEN [ret |-> body[kind], err |-> Nil]
    ELSE [ret |-> model, err |-> UnmarshalError(body)]

\* jsonapi.UnmarshalManyPayload: the document of a list of that kind is
\* decoded; a list without elements reads the same for every kind
UnmarshalManyPayload(body, kind) ==
    IF body.kind = kind
    THEN [ret |-> body[kind], err |-> Nil]
    ELSE IF body.kind \in {"images", "instances"} /\ body[body.kind] = <<>>
    THEN [ret |-> <<>>, err |-> Nil]
    ELSE [ret |-> <<>>, err |-> UnmarshalError(body)]

\* parseError: the decoding error, or "<title> (<detail>)"; never nil
parseError(body) ==
    IF JSONObject(body)
    THEN body.title \o " (" \o body.detail \o ")"
    ELSE JSONError(body)

Return(ret, err) == [ret |-> ret, err |-> err, panicked |-> FALSE]

\* a nil pointer dereference: the call returns nothing, the program panics
Panic(model) == [ret |-> model, err |-> Nil, panicked |-> TRUE]

GetImage(reply) ==
    IF reply.err # Nil THEN Return(ClientZeroImage, reply.err)
    ELSE IF reply.resp.StatusCode # 200
    THEN Return(ClientZeroImage, parseError(reply.resp.Body))
    ELSE LET d == UnmarshalPayload(reply.resp.Body, "image", ClientZeroImage)
         IN  Return(d.ret, d.err)

GetInstance(reply) ==
    IF reply.err # Nil THEN Return(ClientZeroInstance, reply.err)
    ELSE IF reply.resp.StatusCode # 200
    THEN Return(ClientZeroInstance, parseError(reply.resp.Body))
    ELSE LET d == UnmarshalPayload(reply.resp.Body, "instance", ClientZeroInstance)
         IN  Return(d.ret, d.err)

ListImages(reply) ==
    IF reply.err # Nil THEN Return(<<>>, reply.err)
    ELSE IF reply.resp.StatusCode # 200
    THEN Return(<<>>, parseError(reply.resp.Body))
    ELSE LET d == UnmarshalManyPayload(reply.resp.Body, "images")
         IN  Return(d.ret, d.err)

ListInstances(reply) ==
    IF reply.err # Nil THEN Return(<<>>, reply.err)
    ELSE IF reply.resp.StatusCode # 200
    THEN Return(<<>>, parseError(reply.resp.Body))
    ELSE LET d == UnmarshalManyPayload(reply.resp.Body, "instances")
         IN  Return(d.ret, d.err)

\* (marshalling the request, a struct of one string, does not fail)
CreateInstance(reply) ==
    IF reply.err # Nil THEN Return(ClientZeroInstance, reply.err)
    ELSE IF reply.resp.StatusCode # 201
    THEN Return(ClientZeroInstance, parseError(reply.resp.Body))
    ELSE LET d == UnmarshalPayload(reply.resp.Body, "instance", ClientZeroInstance)
         IN  Return(d.ret, d.err)

DestroyInstance(reply) ==
    IF reply.err # Nil THEN Return(Nil, reply.err)
    ELSE IF reply.resp.StatusCode # 204
    THEN Return(Nil, parseError(reply.resp.Body))
    ELSE Return(Nil, Nil)

CreateImage(reply) ==
    IF reply.err # Nil THEN Return(ClientZeroImage, reply.err)
    ELSE IF reply.resp.StatusCode # 201
    THEN Return(ClientZeroImage, parseError(reply.resp.Body))
    ELSE LET d == UnmarshalPayload(reply.resp.Body, "image", ClientZeroImage)
         IN  Return(d.ret, d.err)

\* The body is read when the round trip FAILED (if err != nil), and the
\* status is not looked at: with no response there is nothing to read the
\* body of, and without an error the zero image is returned with it.
FinaliseImage(reply) ==
    IF reply.err # Nil
    THEN IF ~reply.resp.present
         THEN Panic(ClientZeroImage)
         ELSE LET d == UnmarshalPayload(reply.resp.Body, "image", ClientZeroImage)
              IN  Return(d.ret, d.err)
    ELSE Return(ClientZeroImage, reply.err)

DestroyImage(reply) ==
    IF reply.err # Nil THEN Return(Nil, reply.err)
    ELSE IF reply.resp.StatusCode # 204
    THEN Return(Nil, parseError(reply.resp.Body))
    ELSE Return(Nil, Nil)

CreateAccessToken(reply) ==
    IF reply.err # Nil THEN Return(ZeroToken, reply.err)
    ELSE IF reply.resp.StatusCode # 201
    THEN Return(ZeroToken, parseError(reply.resp.Body))
    ELSE IF reply.resp.Body.kind = "token"
    THEN Return(reply.resp.Body.token, Nil)
    ELSE IF JSONObject(reply.resp.Body) THEN Return(ZeroToken, Nil)
    ELSE Return(ZeroToken, JSONError(reply.resp.Body))

\* Mutant of After: the comparison the other way round.
AfterReversed(t, u) == t < u

\* time.Time.After
After(t, u) == t > u

\* sort.Slice with less(i, j) = images[i].UpdatedAt.After(images[j].UpdatedAt):
\* the slice is permuted so that no element is less than one before it.  The
\* sort is not stable, so every such permutation is a possible result.
SortedSlices(listed) ==
    LET n == Len(listed)
        perms == {p \in [1..n -> 1..n] : \A i, j \in 1..n : p[i] = p[j] => i = j}
    IN  {s \in {[i \in 1..n |-> listed[p[i]]] : p \in perms} :
            \A i, j \in 1..n : i < j => ~After(s[j].UpdatedAt, s[i].UpdatedAt)}

\* GetLatestImage: the listing's error as it is, else the first ready image
\* of the sorted slice; one possible return per result of the sort
GetLatestImage(reply) ==
    LET listing == ListImages(reply)
    IN  IF listing.err # Nil
        THEN {Return(ClientZeroImage, listing.err)}
        ELSE {LET ready == {i \in 1..Len(sorted) : sorted[i].Ready}
              IN  IF ready # {}
                  THEN Return(sorted[CHOOSE i \in ready : \A j \in ready : i <= j],
                              Nil)
                  ELSE Return(ClientZeroImage, ErrNoImages) :
              sorted \in SortedSlices(listing.ret)}

NoCall ==
    [op |-> "none", reply |-> [resp |-> NoResponse, err |-> Nil],
     ret |-> Nil, err |-> Nil,
     panicked |-> FALSE]

\* The client keeps nothing from one call to the next (Client holds the
\* url, the token and the http.Client): a call is a function of what its
\* round trip gives, which stands in clientCall.reply
Called(op, out) ==
    /\ clientCall' = [clientCall EXCEPT !.op = op, !.ret = out.ret,
                                        !.err = out.err,
                                        !.panicked = out.panicked]
    /\ UNCHANGED notClient

CallGetImage == Called("GetImage", GetImage(clientCall.reply))

CallGetInstance == Called("GetInstance", GetInstance(clientCall.reply))

CallListImages == Called("ListImages", ListImages(clientCall.reply))

CallListInstances == Called("ListInstances", ListInstances(clientCall.reply))

CallCreateInstance == Called("CreateInstance", CreateInstance(clientCall.reply))

CallDestroyInstance ==
    Called("DestroyInstance", DestroyInstance(clientCall.reply))

CallCreateImage == Called("CreateImage", CreateImage(clientCall.reply))

CallFinaliseImage == Called("FinaliseImage", FinaliseImage(clientCall.reply))

CallDestroyImage == Called("DestroyImage", DestroyImage(clientCall.reply))

CallCreateAccessToken ==
    Called("CreateAccessToken", CreateAccessToken(clientCall.reply))

CallGetLatestImage ==
    \E out \in GetLatestImage(clientCall.reply) : Called("GetLatestImage", out)

ClientNext ==
    \/ CallGetImage
    \/ CallGetInstance
    \/ CallListImages
    \/ CallListInstances
    \/ CallCreateInstance
    \/ CallDestroyInstance
    \/ CallCreateImage
    \/ CallFinaliseImage
    \/ CallDestroyImage
    \/ CallCreateAccessToken
    \/ CallGetLatestImage

Init ==
    /\ StoreInit
    /\ InstInit
    /\ AuthInit
    /\ ChainInit
    /\ clientCall = NoCall

Next == StoreNext

Spec == Init /\ [][Next]_vars

SpecRace == Init /\ [][RaceNext]_vars

SpecAuth == Init /\ [][AuthNext]_vars

SpecChain == Init /\ [][ChainNext]_vars

\* the round trip of the client gives any of Replies
ClientInputsInit ==
    /\ StoreInit
    /\ InstInit
    /\ AuthInit
    /\ ChainInit
    /\ clientCall \in {[NoCall EXCEPT !.reply = reply] : reply \in Replies}

SpecClient == ClientInputsInit /\ [][ClientNext]_vars

\* a goroutine that can run is run, and a timer that is set fires
CreateRuns(k) == CreateRegistered(k) \/ CreateTimeout(k) \/ CreateFinish(k)

SpecAuthFair == SpecAuth /\ \A k \in Creators : WF_vars(CreateRuns(k))

\* the goroutine of a callback request runs whenever it can: the lookup
\* ends, Exchange answers within its timeout, a send that has a receiver
\* completes
CallbackRuns(b) ==
    \/ CallbackLookedUp(b)
    \/ \E answer \in Tokens \cup ExchangeFailures : CallbackExchanged(b, answer)
    \/ \E k \in Creators : Deliver(b, k)

SpecAuthFairAll ==
    /\ SpecAuth
    /\ \A k \in Creators : WF_vars(CreateRuns(k))
    /\ \A b \in Callbackers : WF_vars(CallbackRuns(b))

InstancesInit ==
    /\ images = UploadedImages
    /\ nextId = MaxImages + 1
    /\ call = [c \in Callers |-> Idle]
    /\ last = NoOp
    /\ flipped = [i \in IDs |-> "never"]
    /\ wins = [i \in IDs |-> "never"]
    /\ InstInit
    /\ AuthInit
    /\ ChainInit
    /\ clientCall = NoCall

InstancesNext ==
    \/ \E id \in IDs : ImageDone(id)
    \/ \E imageID \in {0} \cup IDs : PostInstance(imageID)
    \/ \E port \in Ports : CreateInstanceLoad(port)
    \/ \E ok \in BOOLEAN, stopped \in BOOLEAN : ProvisionStep(ok, stopped)
    \/ CreateInstanceFinish
    \/ \E id \in InstanceIDs : DeleteInstance(id)
    \/ DestroyInstanceLoad
    \/ \E ok \in BOOLEAN : TeardownStep(ok)
    \/ DestroyInstanceFinish

SpecInstances == InstancesInit /\ [][InstancesNext]_vars

(***************************************************************************)
(* C1: for every image the ready column goes false -> true at most once    *)
(* and never true -> false, over all store operations; once it has gone    *)
(* to true, a MarkAsReady that still presents ready = false fails with no  *)
(* row matched and changes nothing.                                        *)
(***************************************************************************)
ReadyNeverReverts ==
    \A i \in DOMAIN images \cap DOMAIN images' :
        images[i].ready => images'[i].ready

StaleMarkAsReadyFails ==
    (/\ last'.op = "MarkAsReady"
     /\ ~last'.arg.Ready
     /\ flipped[last'.arg.ID] # "never")
    => (last'.ret.err = ErrNoRows /\ images' = images)

C1_ReadyFlipsAtMostOnce ==
    /\ [](\A i \in IDs : flipped[i] # "again")
    /\ [][ReadyNeverReverts /\ StaleMarkAsReadyFails]_vars

\* a stale MarkAsReady has just failed on a row that was flipped and is ready
C1_Witness ==
    /\ last.op = "MarkAsReady"
    /\ ~last.arg.Ready
    /\ last.ret.err = ErrNoRows
    /\ flipped[last.arg.ID] = "once"
    /\ last.arg.ID \in DOMAIN images
    /\ images[last.arg.ID].ready

(***************************************************************************)
(* C2: of two MarkAsReady calls in flight at once on the same image, both  *)
(* presenting ready = false, exactly one succeeds: the one the database    *)
(* executes first on the not-ready row succeeds and leaves the row ready,  *)
(* so the other no longer matches; after one such call has succeeded,      *)
(* every other one fails with no row matched and changes nothing; no id    *)
(* ever sees two successes.                                                *)
(***************************************************************************)
Executes(c) == call[c] # Idle /\ call'[c] = Idle

Racing(c, d) ==
    /\ c # d
    /\ call[c] # Idle
    /\ call[d] # Idle
    /\ call[c].image = call[d].image
    /\ ~call[c].image.Ready

RaceStep ==
    \A c, d \in Callers :
        (Racing(c, d) /\ Executes(c)) =>
            LET id == call[c].image.ID
            IN IF id \in DOMAIN images /\ ~images[id].ready
               THEN /\ last'.ret.err = NoError
                    /\ images'[id].ready
                    /\ wins'[id] = "once"
                    /\ images'[id].ready # call'[d].image.Ready
               ELSE /\ last'.ret.err = ErrNoRows
                    /\ images' = images

LoserStep ==
    \A c \in Callers :
        (/\ Executes(c)
         /\ ~call[c].image.Ready
         /\ wins[call[c].image.ID] # "never")
        => (last'.ret.err = ErrNoRows /\ images' = images)

C2_ExactlyOneRacerSucceeds ==
    /\ [](\A i \in IDs : wins[i] # "again")
    /\ [][RaceStep /\ LoserStep]_vars

\* the first of two racing calls has succeeded, the second is still in
\* flight with the value of ready that is now stale
C2_Witness ==
    /\ last.op = "MarkAsReady"
    /\ last.ret.err = NoError
    /\ ~last.arg.Ready
    /\ \E d \in Callers : call[d] # Idle /\ call[d].image = last.arg

(***************************************************************************)
(* C3: MarkAsReady(image) succeeds exactly when a row with image.ID exists *)
(* whose ready equals image.Ready; then that row is ready and so is the    *)
(* image returned; otherwise it returns an error and the table is          *)
(* unchanged; in both cases every other row is unchanged.                  *)
(***************************************************************************)
MarkAsReadyContract ==
    last'.op = "MarkAsReady" =>
        LET image == last'.arg
            ret == last'.ret
        IN /\ DOMAIN images' = DOMAIN images
           /\ \A j \in DOMAIN images \ {image.ID} : images'[j] = images[j]
           /\ IF image.ID \in DOMAIN images
                 /\ images[image.ID].ready = image.Ready
              THEN /\ ret.err = NoError
                   /\ images'[image.ID].ready
                   /\ ret.image.ID = image.ID
                   /\ ret.image.Ready
              ELSE /\ ret.err # NoError
                   /\ images' = images

C3_MarkAsReadyCompareAndSwap == [][MarkAsReadyContract]_vars

\* a MarkAsReady has just succeeded while another, not-ready row exists
C3_Witness ==
    /\ last.op = "MarkAsReady"
    /\ last.ret.err = NoError
    /\ \E j \in DOMAIN images : j # last.arg.ID /\ ~images[j].ready

(***************************************************************************)
(* C4: Create(image) returns the newly assigned id and the timestamps of   *)
(* the row it inserted, and the row's ready flag is the one the image      *)
(* carried: an image handed over with Ready = false is not ready right     *)
(* after its creation.                                                     *)
(***************************************************************************)
C4_CreateStoresGivenReady ==
    last.op = "Create" =>
        LET id == last.ret.image.ID
        IN /\ last.ret.err = NoError
           /\ id = nextId - 1
           /\ id \in DOMAIN images
           /\ images[id].ready = last.arg.Ready
           /\ last.ret.image.Ready = last.arg.Ready
           /\ last.ret.image.CreatedAt = images[id].created_at
           /\ last.ret.image.UpdatedAt = images[id].updated_at
           /\ last.ret.image.BackedUpAt = images[id].backed_up_at

\* C4 as claimed: whatever the image carries, the new row is not ready
C4_CreateAlwaysUnready ==
    last.op = "Create" =>
        /\ last.ret.image.ID \in DOMAIN images
        /\ ~images[last.ret.image.ID].ready
        /\ ~last.ret.image.Ready

\* an image handed over not ready has just been created, next to another
C4_Witness ==
    /\ last.op = "Create"
    /\ ~last.arg.Ready
    /\ ~images[last.ret.image.ID].ready
    /\ last.ret.image.ID > 1

(***************************************************************************)
(* C5: a create request for an image that is not ready ends at once with   *)
(* 422 unprocessable_entity, leaves table instances and every instance's   *)
(* database as they were and takes no instance id; and 422 is the answer   *)
(* to nothing but an image that exists and is not ready.                   *)
(***************************************************************************)
LoadsImage == req.op = "create" /\ req.pc = "load" /\ req' # req

UnreadyImageRefused ==
    (/\ LoadsImage
     /\ req.image_id \in DOMAIN images
     /\ ~images[req.image_id].ready)
    => /\ req' = NoReq
       /\ resp'.op = "create"
       /\ resp'.status = HttpUnprocessable
       /\ instances' = instances
       /\ instances' = req.before
       /\ nextInstanceId' = nextInstanceId
       /\ resource' = resource

UnprocessableOnlyForUnready ==
    (LoadsImage /\ req' = NoReq /\ resp'.status = HttpUnprocessable)
    => (req.image_id \in DOMAIN images /\ ~images[req.image_id].ready)

C5_UnreadyImageNoInstance ==
    [][UnreadyImageRefused /\ UnprocessableOnlyForUnready]_vars

\* a create request has been refused with 422 while an instance exists and
\* another image is ready
C5_Witness ==
    /\ resp.op = "create"
    /\ resp.status = HttpUnprocessable
    /\ instances # <<>>
    /\ \E i \in DOMAIN images : images[i].ready

(***************************************************************************)
(* C6: a create request for a ready image whose provisioning script ends   *)
(* with status 0 succeeds with 201; the instance returned and the row      *)
(* persisted reference exactly that image and carry the port assigned, a   *)
(* positive one; when the script fails the request fails with 500.         *)
(***************************************************************************)
FinishesCreate ==
    /\ req.op = "create"
    /\ req.pc \in {"exit0", "exit1"}
    /\ req' = NoReq
    /\ images[req.image_id].ready

ReadyImageProvisioned ==
    FinishesCreate =>
        IF req.pc = "exit0"
        THEN /\ resp'.status = HttpCreated
             /\ resp'.instance.ID = req.id
             /\ resp'.instance.ImageID = req.image_id
             /\ resp'.instance.Port = req.port
             /\ resp'.instance.Port > 0
             /\ req.id \in DOMAIN instances'
             /\ instances'[req.id].image_id = req.image_id
             /\ instances'[req.id].port = resp'.instance.Port
        ELSE resp'.status = HttpInternal

FailedProvisionNoRow ==
    (/\ req.op = "create"
     /\ req.pc # "load"
     /\ req.failed
     /\ req' = NoReq)
    => /\ resp'.status = HttpInternal
       /\ instances' = req.before
       /\ req.id \notin DOMAIN instances'

C7_FailedProvisionNotPersisted == [][FailedProvisionNoRow]_vars

\* a create request has failed with 500 after its database was started and
\* stopped again, and there is no row for it
C7_Witness ==
    /\ resp.op = "create"
    /\ resp.status = HttpInternal
    /\ \E i \in InstanceIDs :
          resource[i] = "stopped" /\ i \notin DOMAIN instances
                                  /\ i < nextInstanceId

(***************************************************************************)
(* C8: a destroy request stops the database, then deletes its storage,     *)
(* then deletes the row: storage is deleted only of a stopped database     *)
(* whose row still exists, the row is deleted only when the storage is     *)
(* gone and the script has ended with status 0; a failed teardown leaves   *)
(* the table as it was; after a 204 the instance is in the table no more.  *)
(***************************************************************************)
RowDeletedAfterTeardown ==
    \A i \in DOMAIN instances \ DOMAIN instances' :
        /\ resource[i] = "deleted"
        /\ req.op = "destroy"
        /\ req.id = i
        /\ req.pc = "exit0"

StorageDeletedAfterStop ==
    \A i \in InstanceIDs :
        (resource[i] # "deleted" /\ resource'[i] = "deleted")
        => (resource[i] = "stopped" /\ i \in DOMAIN instances')

FinishesDestroy ==
    (/\ req.op = "destroy"
     /\ req.pc \in {"exit0", "exit1"}
     /\ req' = NoReq)
    => IF req.pc = "exit0"
       THEN /\ resp'.status = HttpNoContent
            /\ req.id \notin DOMAIN instances'
            /\ \A j \in DOMAIN instances \ {req.id} :
                  j \in DOMAIN instances' /\ instances'[j] = instances[j]
       ELSE /\ resp'.status = HttpInternal
            /\ instances' = instances

C8_TeardownBeforeRowDeletion ==
    /\ [][RowDeletedAfterTeardown /\ StorageDeletedAfterStop /\ FinishesDestroy]_vars
    /\ [](resp.op = "destroy" /\ resp.status = HttpNoContent
            => resp.id \notin DOMAIN instances)

\* an instance has been destroyed with 204: its storage is deleted, its row
\* is gone, and another instance is still there
C8_Witness ==
    /\ resp.op = "destroy"
    /\ resp.status = HttpNoContent
    /\ resource[resp.id] = "deleted"
    /\ resp.id \notin DOMAIN instances
    /\ instances # <<>>

(***************************************************************************)
(* C9: a result (token or error) that Callback(state, ...) sends is        *)
(* received unchanged by the Create call blocked on that state: what       *)
(* waitForCallback hands to Create is the token Callback obtained from the *)
(* exchange, or the error Callback delivered; Create answers 201 with that *)
(* token, or logs that error and answers 400.                              *)
(***************************************************************************)
Sends(b) == cbk[b].pc = "send" /\ cbk'[b].pc = "done"

ReceivedUnchanged ==
    \A b \in Callbackers :
        Sends(b) =>
            \E k \in Creators :
                /\ crt[k].pc = "wait"
                /\ crt[k].state = cbk[b].state
                /\ crt'[k].pc = "deleting"
                /\ crt'[k].got.Token = cbk[b].msg.Token
                /\ crt'[k].got.Error = cbk[b].msg.Error
                /\ cbk[b].exchanged \in Tokens =>
                      /\ crt'[k].got.Token = cbk[b].exchanged
                      /\ crt'[k].got.Error = Nil
                /\ cbk[b].exchanged \notin Tokens => crt'[k].got.Error # Nil
                /\ \A j \in Creators \ {k} : crt'[j] = crt[j]

ReturnsWhatItReceived ==
    \A k \in Creators :
        (crt[k].pc = "deleting" /\ crt'[k].pc = "done") =>
            /\ crt'[k].got = crt[k].got
            /\ crt[k].got.Error = Nil =>
                  /\ crt'[k].response.code = 201
                  /\ crt'[k].response.body = crt[k].got.Token
            /\ crt[k].got.Error # Nil =>
                  /\ crt'[k].response.code = 400
                  /\ crt'[k].response.logged = crt[k].got.Error

InFlight(k) == crt[k].pc \in {"registering", "wait", "deleting"}

TimesOut(k) == crt[k].pc = "wait" /\ crt'[k].pc = "deleting" /\ cbk' = cbk

C10_CreateEventuallyReturns ==
    /\ \A k \in Creators : InFlight(k) ~> (crt[k].pc = "done")
    /\ [][\A k \in Creators : TimesOut(k) => crt'[k].got.Error = ErrTimeout]_vars

(***************************************************************************)
(* C11: the slot a Create call registered leaves the registry exactly      *)
(* once, whatever the outcome (token, error, timeout, client gone while    *)
(* blocked): once the call has returned the registry holds no entry of     *)
(* that call, and an entry that has left the registry never comes back.    *)
(***************************************************************************)
Holds(k) == \E s \in DOMAIN Callbacks : Callbacks[s] = k

HasRegistered(k) == crt[k].pc \in {"wait", "deleting"} \/ "got" \in DOMAIN crt[k]

NoEntryLeftBehind == \A k \in Creators : crt[k].pc = "done" => ~Holds(k)

RemovedStaysRemoved ==
    \A k \in Creators : (HasRegistered(k) /\ ~Holds(k)) => ~Holds(k)'

C11_SlotRemovedWhateverTheOutcome ==
    /\ []NoEntryLeftBehind
    /\ [][RemovedStaysRemoved]_vars

\* one Create has returned on the timeout after its client went away,
\* another has returned a delivered token, and the registry is empty
C11_Witness ==
    \E k, j \in Creators :
        /\ crt[k].pc = "done" /\ crt[j].pc = "done"
        /\ "got" \in DOMAIN crt[k] /\ "got" \in DOMAIN crt[j]
        /\ crt[k].got.Error = ErrTimeout
        /\ k \in cancelled
        /\ crt[j].got.Error = Nil
        /\ Callbacks = <<>>

(***************************************************************************)
(* C12: a Callback for a state that has no slot in the registry (never     *)
(* registered, consumed, expired) is a no-op: it returns nil to its own    *)
(* caller, exchanges no token, delivers nothing and leaves the registry    *)
(* as it was.                                                              *)
(***************************************************************************)
FindsNoSlot(b) ==
    /\ cbk[b].pc = "looking" /\ cbk'[b].pc # "looking"
    /\ cbk[b].state \notin DOMAIN Callbacks

NoSlotIsNoOp ==
    \A b \in Callbackers :
        FindsNoSlot(b) =>
            /\ cbk'[b].pc = "done"
            /\ cbk'[b].ret = Nil
            /\ ~cbk'[b].delivered
            /\ Callbacks' = Callbacks
            /\ crt' = crt

C12_NoSlotCallbackIsNoOp == [][NoSlotIsNoOp]_vars

\* a state has been consumed by a delivery, and a second Callback for it
\* has returned without a slot
C12_Witness ==
    \E b, d \in Callbackers, k \in Creators :
        /\ cbk[b].pc = "done" /\ cbk[d].pc = "done" /\ crt[k].pc = "done"
        /\ "got" \in DOMAIN crt[k]
        /\ crt[k].state = cbk[b].state /\ cbk[d].state = cbk[b].state
        /\ cbk[d].delivered
        /\ ~cbk[b].delivered
        /\ cbk[b].ret = Nil

(***************************************************************************)
(* C13: the accesses to the registry (registration and removal in Create,  *)
(* lookup in Callback) exclude each other: in no reachable state are two   *)
(* requests inside the registry at once with one of them writing.          *)
(***************************************************************************)
C13_RegistryAccessExclusive ==
    \A p \in Writing : \A q \in Writing \cup Reading : p = q

(***************************************************************************)
(* C14: the correlation entry of a state is live from the registration by  *)
(* a Create call for that state until a Create call for that state removes *)
(* it after delivery or timeout, and a Callback looking the state up in    *)
(* between finds the slot; Authenticate registers nothing.                 *)
(***************************************************************************)
Redirects == authenticated' # authenticated

Registers(k) == crt[k].pc = "registering" /\ crt'[k].pc = "wait"

Removes(k) == crt[k].pc = "deleting" /\ crt'[k].pc = "done"

LooksUp(b) == cbk[b].pc = "looking" /\ cbk'[b].pc # "looking"

EntriesAreOfWaitingCreates ==
    \A s \in DOMAIN Callbacks :
        /\ Callbacks[s] \in Creators
        /\ crt[Callbacks[s]].pc \in {"wait", "deleting"}
        /\ crt[Callbacks[s]].state = s

EntryLifetime ==
    /\ Redirects => Callbacks' = Callbacks
    /\ \A k \in Creators :
          Registers(k) =>
              /\ crt[k].state \in DOMAIN Callbacks'
              /\ Callbacks'[crt[k].state] = k
    /\ \A s \in DOMAIN Callbacks :
          s \notin DOMAIN Callbacks' =>
              \E k \in Creators : Removes(k) /\ crt[k].state = s
    /\ \A s \in DOMAIN Callbacks' :
          s \notin DOMAIN Callbacks =>
              \E k \in Creators : Registers(k) /\ crt[k].state = s
    /\ \A b \in Callbackers :
          (LooksUp(b) /\ cbk[b].state \in DOMAIN Callbacks) =>
              /\ cbk'[b].pc \in {"send", "exchange"}
              /\ cbk'[b].chan = Callbacks[cbk[b].state]

C14_LiveFromRegistration ==
    /\ []EntriesAreOfWaitingCreates
    /\ [][EntryLifetime]_vars

\* the statement as claimed: after Authenticate(state), and before any
\* Create for the state has received a result or timed out, a Callback for
\* the state finds a slot
Resolved(s) ==
    \E k \in Creators : "got" \in DOMAIN crt[k] /\ crt[k].state = s

C14_LiveFromAuthenticate ==
    [][\A b \in Callbackers :
          (/\ LooksUp(b)
           /\ cbk[b].state \in authenticated
           /\ ~Resolved(cbk[b].state)) =>
              cbk'[b].pc \in {"send", "exchange"}]_vars

\* after Authenticate(state) and the registration by Create(state), a
\* Callback for the state holds the slot of the waiting Create
C14_Witness ==
    \E b \in Callbackers, k \in Creators :
        /\ cbk[b].pc = "send"
        /\ cbk[b].chan = k
        /\ crt[k].pc = "wait"
        /\ crt[k].state = cbk[b].state
        /\ cbk[b].state \in authenticated

(***************************************************************************)
(* C15: delivery is at most once: a state has at most one entry and a      *)
(* channel is entered under one state only, every result a Callback        *)
(* delivers is received by one Create call, a Create call receives at most *)
(* one result, and once it has, no second Callback fulfils it again: its   *)
(* entry is removed when it returns.                                       *)
(***************************************************************************)
Delivered == {b \in Callbackers : cbk[b].pc = "done" /\ cbk[b].delivered}

Fulfilled ==
    {k \in Creators : "got" \in DOMAIN crt[k] /\ crt[k].got.Error # ErrTimeout}

OneEntryPerState ==
    \A s, t \in DOMAIN Callbacks : Callbacks[s] = Callbacks[t] => s = t

OneReceiverPerResult == Cardinality(Delivered) = Cardinality(Fulfilled)

ConsumedEntryRemoved ==
    \A k \in Creators :
        crt[k].pc = "done" => \A s \in DOMAIN Callbacks : Callbacks[s] # k

OneResultPerCreate ==
    /\ \A k \in Creators :
          "got" \in DOMAIN crt[k] =>
              "got" \in DOMAIN crt'[k] /\ crt'[k].got = crt[k].got
    /\ \A b \in Callbackers :
          Sends(b) =>
              Cardinality({k \in Creators : crt'[k] # crt[k]}) = 1
    /\ Cardinality({b \in Callbackers : Sends(b)}) <= 1

C15_AtMostOnceDelivery ==
    /\ [](OneEntryPerState /\ OneReceiverPerResult /\ ConsumedEntryRemoved)
    /\ [][OneResultPerCreate]_vars

\* a Create call has returned the result of one Callback while a second
\* Callback for the same state still holds its channel, undelivered
C15_Witness ==
    \E b, d \in Callbackers, k \in Creators :
        /\ cbk[b].pc = "done" /\ cbk[b].delivered
        /\ crt[k].pc = "done" /\ k \in Fulfilled
        /\ crt[k].state = cbk[b].state
        /\ cbk[d].pc = "send" /\ cbk[d].chan = k
        /\ cbk[d].msg # cbk[b].sent

(***************************************************************************)
(* C16: a Create call blocked in its wait holds no lock on the registry:   *)
(* while it waits, every Create and Callback for another state can take    *)
(* its next step (register, look up, exchange, deliver, time out, remove   *)
(* and answer), whatever the interleaving so far.                          *)
(***************************************************************************)
CreateCanStep(j) ==
    /\ crt[j].pc = "registering" => ENABLED CreateRegistered(j)
    /\ crt[j].pc = "wait" => ENABLED CreateTimeout(j)
    /\ crt[j].pc = "deleting" => ENABLED CreateFinish(j)

CallbackCanStep(b) ==
    /\ cbk[b].pc = "looking" => ENABLED CallbackLookedUp(b)
    /\ cbk[b].pc = "exchange" =>
          \A answer \in Tokens \cup ExchangeFailures :
              ENABLED CallbackExchanged(b, answer)
    /\ (cbk[b].pc = "send" /\ crt[cbk[b].chan].pc = "wait") =>
          ENABLED Deliver(b, cbk[b].chan)

OfOtherState(r, k) == "state" \in DOMAIN r /\ r.state # crt[k].state

C16_WaitHoldsNoLock ==
    \A k \in Creators :
        (~crashed /\ crt[k].pc = "wait") =>
            /\ \A s \in States \ {crt[k].state} :
                  \A j \in Creators :
                      crt[j].pc = "idle" => ENABLED CreateBegin(j, s)
            /\ \A s \in States \ {crt[k].state} :
                  \A b \in Callbackers :
                      cbk[b].pc = "idle" =>
                          \A form \in Forms : ENABLED CallbackBegin(b, s, form)
            /\ \A j \in Creators : OfOtherState(crt[j], k) => CreateCanStep(j)
            /\ \A b \in Callbackers : OfOtherState(cbk[b], k) => CallbackCanStep(b)

\* while one Create is still waiting on its state, a Create for another
\* state has registered, received its token from a Callback and answered
C16_Witness ==
    \E k, j \in Creators, b \in Callbackers :
        /\ ~crashed
        /\ crt[k].pc = "wait"
        /\ crt[j].pc = "done" /\ j \in Fulfilled
        /\ crt[j].state # crt[k].state
        /\ crt[j].response.code = 201
        /\ cbk[b].pc = "done" /\ cbk[b].delivered
        /\ cbk[b].state = crt[j].state
        /\ Callbacks = MapWith(<<>>, crt[k].state, k)

(***************************************************************************)
(* C17: the authentication middleware calls the next handler if and only   *)
(* if the Authenticator accepts the request.  On a failure it renders 401  *)
(* Unauthorized, returns nil and never calls the next handler; on success  *)
(* it calls the next handler exactly once, and GetAuthenticatedUser on     *)
(* that request gives the identity the Authenticator returned.             *)
(***************************************************************************)
Handled == {chainLog[i] : i \in 1..Len(chainLog)}

Accepted(e) == e.asked /\ e.outcome.err = Nil

Rejected(e) == e.asked /\ e.outcome.err # Nil

C17_NextIffAuthenticated ==
    /\ \A e \in Handled :
          e.guarded =>
              /\ e.nextCalls >= 1 <=> Accepted(e)
              /\ Rejected(e) =>
                    /\ e.render = HttpUnauthorized
                    /\ e.ret = Nil
                    /\ e.nextCalls = 0
              /\ Accepted(e) =>
                    /\ e.nextCalls = 1
                    /\ e.render = NoRender
                    /\ e.got = [user |-> e.outcome.email, err |-> Nil]
    /\ (chainReq.pc = "next" /\ chainReq.guarded) =>
          /\ Accepted(chainReq)
          /\ AuthUserKey \in DOMAIN chainReq.ctx
          /\ chainReq.ctx[AuthUserKey] = StringValue(chainReq.outcome.email)

\* one request was refused with 401, another went through to the next
\* handler, which found the identity the Authenticator gave
C17_Witness ==
    \E e, f \in Handled :
        /\ e.guarded /\ Rejected(e)
        /\ e.render.code = 401 /\ e.nextCalls = 0
        /\ f.guarded /\ Accepted(f)
        /\ f.nextCalls = 1
        /\ f.got.user = "bob@example.com"

(***************************************************************************)
(* C18: a handler that asks for the caller's identity on a request to      *)
(* which none was attached gets an error from GetAuthenticatedUser, never  *)
(* an empty identity with no error.                                        *)
(***************************************************************************)
IdentityAttached(e) ==
    AuthUserKey \in DOMAIN e.ctx /\ e.ctx[AuthUserKey].type = "string"

C18_MissingIdentityIsAnError ==
    \A e \in Handled :
        e.nextCalls >= 1 =>
            /\ ~IdentityAttached(e) =>
                  /\ e.got.err = ErrNoUser
                  /\ e.got.user = ""
            /\ e.got.err = Nil =>
                  /\ IdentityAttached(e)
                  /\ e.got.user = e.ctx[AuthUserKey].v

\* handlers have asked on a request with an empty context and on one whose
\* value under the key is not a string
C18_Witness ==
    \E e, f \in Handled :
        /\ e.nextCalls = 1 /\ f.nextCalls = 1
        /\ e.ctx = <<>>
        /\ AuthUserKey \in DOMAIN f.ctx /\ f.ctx[AuthUserKey].type = "int"
        /\ e.got.err = ErrNoUser /\ f.got.err = ErrNoUser

(***************************************************************************)
(* C19: draupnir-create-instance opens the instance to the network (the    *)
(* final restart) only after every access check has held: no connection    *)
(* without TLS, none over TLS without the client certificate, the client   *)
(* role is no superuser, no login as postgres.  When a check fails the     *)
(* script ends with a failure, the instance that was started is stopped    *)
(* by die_and_stop, and the instance is never opened.                      *)
(***************************************************************************)
ClaimedChecks ==
    {"check_no_tls", "check_no_cert", "check_superuser", "check_other_user"}

Provisioning == req.op = "create" /\ "held" \in DOMAIN req

PastTheChecks ==
    (Provisioning /\ req.pc \in {"enable", "restart", "exit0"}) =>
        (ClaimedChecks \subseteq req.held /\ AccessChecks \subseteq req.held)

NotOpenedWithoutChecks ==
    Provisioning =>
        /\ resource[req.id] = "exposed" => AccessChecks \subseteq req.held
        /\ req.failed => resource[req.id] # "exposed"

Opens ==
    /\ Provisioning
    /\ resource[req.id] # "exposed"
    /\ resource'[req.id] = "exposed"

CheckFails ==
    /\ Provisioning
    /\ req.pc \in AccessChecks
    /\ req' # req
    /\ req'.held = req.held

CheckOrder ==
    /\ Opens => (req.pc = "restart" /\ ClaimedChecks \subseteq req.held)
    /\ CheckFails =>
          /\ req'.pc = "exit1"
          /\ req'.failed
          /\ resource'[req.id] \in {"stopped", resource[req.id]}
          /\ resource[req.id] = "local"

ListedAll ==
    last.op = "List" =>
        LET listed == last.ret.images
        IN /\ last.ret.err = NoError
           /\ Len(listed) = Cardinality(DOMAIN images)
           /\ {listed[k].ID : k \in 1..Len(listed)} = DOMAIN images
           /\ \A k \in 1..Len(listed) - 1 : listed[k].ID < listed[k + 1].ID
           /\ \A k \in 1..Len(listed) :
                 /\ listed[k].Anon = ""
                 /\ listed[k].Ready = images[listed[k].ID].ready
                 /\ listed[k].BackedUpAt = images[listed[k].ID].backed_up_at

GetsAnon ==
    (last.op = "Get" /\ last.arg \in DOMAIN images) =>
        /\ last.ret.err = NoError
        /\ last.ret.image.ID = last.arg
        /\ last.ret.image.Anon = images[last.arg].anon
        /\ last.ret.image.Anon \in Anons

AnonAsCreated ==
    /\ \A id \in DOMAIN images :
          id \in DOMAIN images' => images'[id].anon = images[id].anon
    /\ \A id \in DOMAIN images' :
          id \notin DOMAIN images =>
              last'.op = "Create" /\ images'[id].anon = last'.arg.Anon

C20_ListWithoutAnonGetWithAnon ==
    /\ [](ListedAll /\ GetsAnon)
    /\ [][AnonAsCreated]_vars

\* two images with different anon content have been listed
C20_Witness ==
    /\ last.op = "List"
    /\ Len(last.ret.images) = 2
    /\ last.ret.images[1].ID = 1 /\ last.ret.images[2].ID = 2
    /\ images[1].anon # images[2].anon
    /\ images[2].ready /\ ~images[1].ready

(***************************************************************************)
(* C21: Get(id) fails with the not-found error of the store whenever no    *)
(* row has that id, whether it was never created or has been destroyed,    *)
(* and Get does not change the store.                                      *)
(***************************************************************************)
GetOfMissingFails ==
    (last.op = "Get" /\ last.arg \notin DOMAIN images) =>
        /\ last.ret.err = ErrNoRows
        /\ last.ret.err # NoError
        /\ last.ret.image = ZeroImage

GetChangesNothing ==
    (last'.op = "Get" /\ last' # last) =>
        /\ images' = images
        /\ nextId' = nextId
        /\ flipped' = flipped

C21_GetOfMissingIsNotFound ==
    /\ []GetOfMissingFails
    /\ [][GetChangesNothing]_vars

\* Get of an id that was created and has been destroyed, while another row
\* is still there
C21_Witness ==
    /\ last.op = "Get"
    /\ last.arg = 1
    /\ nextId > 2
    /\ DOMAIN images = {2}
    /\ last.ret.err = ErrNoRows

(***************************************************************************)
(* C22: Destroy(image) removes the row with image.ID and no other;         *)
(* destroying an id that has no row returns no error and leaves the store  *)
(* as it was, so Destroy is idempotent.                                    *)
(***************************************************************************)
Destroys == last'.op = "Destroy" /\ (last' # last \/ images' # images)

DestroyRemovesOneRow ==
    Destroys =>
        /\ last'.ret.err = NoError
        /\ DOMAIN images' = DOMAIN images \ {last'.arg.ID}
        /\ \A i \in DOMAIN images' : images'[i] = images[i]
        /\ last'.arg.ID \notin DOMAIN images => images' = images
        /\ nextId' = nextId
        /\ DestroyTable(images', last'.arg) = images'

C22_DestroyExactlyOneRow == [][DestroyRemovesOneRow]_vars

\* a Destroy of an id that was never created has returned no error, and the
\* one row of the table is still there
C22_Witness ==
    /\ last.op = "Destroy"
    /\ last.ret.err = NoError
    /\ last.arg.ID = 2
    /\ nextId = 2
    /\ DOMAIN images = {1}

(***************************************************************************)
(* C23: every Callback that finds a slot delivers exactly one result into  *)
(* it: the provider's error, with no exchange attempted, when there is     *)
(* one; the empty-code error when there is neither error nor code; and     *)
(* otherwise the token obtained from the exchange, or the exchange error.  *)
(* Here: the message a Callback holds for its slot is the one so chosen,   *)
(* and while the server runs the Create of that slot is there to take it.  *)
(***************************************************************************)
ResultChosen(b) ==
    /\ cbk[b].exchanged = Nil =>
          cbk[b].msg.Error \in {"access_denied", ErrEmptyCode}
    /\ cbk[b].exchanged \in Tokens =>
          cbk[b].msg = OAuthCallback(cbk[b].exchanged, Nil)
    /\ cbk[b].exchanged \in ExchangeFailures =>
          cbk[b].msg = OAuthCallback(ZeroToken, WrapExchangeError(cbk[b].exchanged))

C23_FoundSlotGetsOneResult ==
    \A b \in Callbackers :
        cbk[b].pc = "send" =>
            /\ ResultChosen(b)
            /\ ~crashed => crt[cbk[b].chan].pc = "wait"

(***************************************************************************)
(* C24: a registration for a state whose first Create has not resolved     *)
(* takes the entry of the state: the first waiter is no longer in the      *)
(* registry and nothing is told to it, a Callback that looks the state up  *)
(* from then on never holds the first waiter's channel, and the first      *)
(* waiter ends by its timeout, or by the send of a Callback that had       *)
(* looked its channel up before the second registration.                   *)
(***************************************************************************)
Discarded(k) == crt[k].pc = "wait" /\ ~Holds(k)

Overwrites(k) ==
    /\ Registers(k)
    /\ crt[k].state \in DOMAIN Callbacks
    /\ Callbacks[crt[k].state] # k

OverwriteDiscardsFirst ==
    /\ \A k \in Creators :
          Overwrites(k) =>
              LET first == Callbacks[crt[k].state]
              IN /\ Callbacks'[crt[k].state] = k
                 /\ ~(\E s \in DOMAIN Callbacks' : Callbacks'[s] = first)
                 /\ crt'[first] = crt[first]
    /\ \A k \in Creators :
          Discarded(k) =>
              /\ ~Holds(k)'
              /\ \A b \in Callbackers :
                    (LooksUp(b) /\ "chan" \in DOMAIN cbk'[b]) => cbk'[b].chan # k
              /\ crt'[k].pc # "wait" =>
                    \/ crt'[k].got = WaitForCallbackTimeout
                    \/ \E b \in Callbackers :
                          /\ Sends(b)
                          /\ cbk[b].chan = k
                          /\ crt'[k].got = WaitForCallbackReceive(cbk[b].msg)

C24_SecondRegistrationOverwrites == [][OverwriteDiscardsFirst]_vars

\* the statement as claimed: a first waiter whose entry a second
\* registration has taken ends only by its timeout
Overwritten(k) ==
    /\ crt[k].pc = "wait"
    /\ crt[k].state \in DOMAIN Callbacks
    /\ Callbacks[crt[k].state] # k

C24_FirstWaiterOnlyTimesOut ==
    [][\A k \in Creators :
          (Overwritten(k) /\ crt'[k].pc # "wait") =>
              crt'[k].got = WaitForCallbackTimeout]_vars

\* the second waiter holds the entry and has received the result of a
\* Callback for the state, while the first waiter is still waiting
C24_Witness ==
    \E k, j \in Creators, b \in Callbackers :
        /\ Overwritten(k)
        /\ Callbacks[crt[k].state] = j
        /\ crt[j].pc = "deleting" /\ j \in Fulfilled
        /\ cbk[b].pc = "done" /\ cbk[b].delivered
        /\ cbk[b].state = crt[k].state

(***************************************************************************)
(* C25: every Callback invocation returns to its caller in the end; it     *)
(* does not block for ever on the delivery of its result, also when the    *)
(* Create it found has timed out, or has taken the result of another       *)
(* Callback, between the lookup and the send.  Here, weaker: it returns    *)
(* unless the server has been aborted.                                     *)
(***************************************************************************)
CallbackInFlight(b) == cbk[b].pc \in {"looking", "exchange", "send"}

C25_CallbackEventuallyReturns ==
    \A b \in Callbackers :
        CallbackInFlight(b) ~> (cbk[b].pc = "done" \/ crashed)

(***************************************************************************)
(* C26: the cleanup at the end of a Create call removes only the slot      *)
(* this call registered, never the slot of another Create call for the     *)
(* same state that is still waiting.                                       *)
(***************************************************************************)
C26_CleanupRemovesOwnSlotOnly ==
    [][\A k \in Creators :
          Removes(k) =>
              \A s \in DOMAIN Callbacks :
                  Callbacks[s] # k =>
                      (s \in DOMAIN Callbacks' /\ Callbacks'[s] = Callbacks[s])]_vars

(***************************************************************************)
(* C27: a Create request whose body cannot be decoded is answered at once  *)
(* with a 4xx validation error; it registers no slot, does not wait for a  *)
(* callback and leaves the registry as it was.                             *)
(***************************************************************************)
RejectedAtOnce(k) == crt[k].pc = "idle" /\ crt'[k].pc = "done"

UndecodableBodyRejected ==
    \A k \in Creators :
        /\ RejectedAtOnce(k) =>
              /\ crt'[k].response.code \in 400..499
              /\ crt'[k].response.body = "invalidJSONError"
              /\ Callbacks' = Callbacks
              /\ cbk' = cbk
        /\ (crt[k].pc = "idle" /\ crt'[k].pc = "registering") =>
              crt'[k].state \in States

NeverRegistered ==
    \A k \in Creators :
        (crt[k].pc = "done" /\ "got" \notin DOMAIN crt[k]) =>
            /\ ~Holds(k)
            /\ crt[k].response = InvalidJSONResponse

C27_UndecodableBodyRegistersNothing ==
    /\ []NeverRegistered
    /\ [][UndecodableBodyRejected]_vars

\* a Create with an undecodable body has been answered 400 while another
\* Create is waiting with its entry untouched
C27_Witness ==
    \E k, j \in Creators :
        /\ crt[k].pc = "done" /\ "got" \notin DOMAIN crt[k]
        /\ crt[k].response.code = 400
        /\ crt[j].pc = "wait"
        /\ Callbacks = MapWith(<<>>, crt[j].state, j)

(***************************************************************************)
(* C28: every operation of the client (GetImage, GetInstance, ListImages,  *)
(* ListInstances, CreateInstance, DestroyInstance, CreateImage,            *)
(* FinaliseImage, DestroyImage, CreateAccessToken) returns a non-nil       *)
(* error, without crashing, whenever the HTTP request fails in transport   *)
(* or the server answers with a status other than the expected one; on the *)
(* expected status it returns the resource decoded from the response.      *)
(***************************************************************************)
ClientOperations ==
    {"GetImage", "GetInstance", "ListImages", "ListInstances",
     "CreateInstance", "DestroyInstance", "CreateImage", "FinaliseImage",
     "DestroyImage", "CreateAccessToken"}

\* the status each operation takes for success (FinaliseImage names none:
\* 200 is what the route of the server answers with)
ExpectedStatus(op) ==
    CASE op \in {"GetImage", "GetInstance", "ListImages", "ListInstances",
                 "FinaliseImage"} -> 200
      [] op \in {"CreateInstance", "CreateImage", "CreateAccessToken"} -> 201
      [] OTHER -> 204

\* the kind of document each operation reads on success
ExpectedKind(op) ==
    CASE op \in {"GetImage", "CreateImage", "FinaliseImage"} -> "image"
      [] op \in {"GetInstance", "CreateInstance"} -> "instance"
      [] op = "ListImages" -> "images"
      [] op = "ListInstances" -> "instances"
      [] op = "CreateAccessToken" -> "token"
      [] OTHER -> "none"

RequestFailed(c) ==
    \/ c.reply.err # Nil
    \/ c.reply.resp.StatusCode # ExpectedStatus(c.op)

FailsWithError(c) == c.err # Nil /\ ~c.panicked

ReturnsDecoded(c) ==
    /\ ~c.panicked
    /\ ExpectedKind(c.op) = "none" => c.err = Nil
    /\ c.reply.resp.Body.kind = ExpectedKind(c.op)
           => c.err = Nil /\ c.ret = c.reply.resp.Body[ExpectedKind(c.op)]

ClientCallSound(c) ==
    IF RequestFailed(c) THEN FailsWithError(c) ELSE ReturnsDecoded(c)

C28_ClientOperationsReportFailure ==
    clientCall.op \in ClientOperations => ClientCallSound(clientCall)

(***************************************************************************)
(* C29: GetLatestImage returns, among the listed images with ready = true, *)
(* one with the greatest UpdatedAt; it never returns an image with         *)
(* ready = false; it returns the error 'no images available' exactly when  *)
(* the listing succeeded and holds no ready image; an error of the listing *)
(* is returned as it is.                                                   *)
(***************************************************************************)
ListingFailed(reply) ==
    \/ reply.err # Nil
    \/ reply.resp.StatusCode # 200
    \/ /\ reply.resp.Body.kind # "images"
       /\ ~(reply.resp.Body.kind = "instances" /\ reply.resp.Body.instances = <<>>)

Listed(reply) ==
    IF reply.resp.Body.kind = "images" THEN reply.resp.Body.images ELSE <<>>

ReadyListed(reply) ==
    {Listed(reply)[i] : i \in {j \in 1..Len(Listed(reply)) : Listed(reply)[j].Ready}}

ListingError(reply) ==
    IF reply.err # Nil THEN reply.err
    ELSE IF reply.resp.StatusCode # 200 THEN parseError(reply.resp.Body)
    ELSE UnmarshalError(reply.resp.Body)

LatestReady(c) ==
    IF ListingFailed(c.reply)
    THEN c.err = ListingError(c.reply) /\ c.err # ErrNoImages
    ELSE /\ ~c.panicked
         /\ c.err \in {Nil, ErrNoImages}
         /\ c.err = ErrNoImages <=> ReadyListed(c.reply) = {}
         /\ c.err = Nil =>
               /\ c.ret \in ReadyListed(c.reply)
               /\ c.ret.Ready
               /\ \A i \in ReadyListed(c.reply) : c.ret.UpdatedAt >= i.UpdatedAt

C29_LatestReadyImage ==
    clientCall.op = "GetLatestImage" => LatestReady(clientCall)

\* a listing with a ready image older than the one returned and an image
\* that is not ready and as recent as the one returned
C29_Witness ==
    /\ clientCall.op = "GetLatestImage"
    /\ ~ListingFailed(clientCall.reply)
    /\ clientCall.err = Nil
    /\ clientCall.ret.Ready
    /\ \E i \in ReadyListed(clientCall.reply) :
           i.UpdatedAt < clientCall.ret.UpdatedAt
    /\ \E i \in 1..Len(Listed(clientCall.reply)) :
           /\ ~Listed(clientCall.reply)[i].Ready
           /\ Listed(clientCall.reply)[i].UpdatedAt >= clientCall.ret.UpdatedAt

====
